---------------------------- MODULE Spec2Model ----------------------------
(***************************************************************************)
(* A model of the SQLite file reader: the page reader (SqliteFile),        *)
(* the b-tree page header parser, the cell iterator and cell decoder, the  *)
(* record (payload) decoder and the command handlers of main.              *)
(*                                                                         *)
(* Representation.                                                         *)
(*   - a byte is a number in 0..255, a byte slice is a sequence of bytes;  *)
(*   - a nom parser result is [st |-> "ok", rest |-> slice, val |-> v] or  *)
(*     [st |-> "err"]; a Rust panic (slice index out of range, unwrap of   *)
(*     None/Err, unreachable!) is [st |-> "panic"];                        *)
(*   - u16 and usize values are numbers; u32 values (page pointers) are    *)
(*     kept as their 4 big-endian bytes and i64 values as their 8          *)
(*     big-endian two's-complement bytes, so no width is lost;             *)
(*   - a String is the sequence of its UTF-8 bytes.                        *)
(***************************************************************************)
EXTENDS Integers, Sequences, FiniteSets, TLC

VARIABLES
    file,     \* the bytes of the database file
    pos,      \* the cursor of the open File inside the handle
    handle,   \* the SqliteFile: none, or page_size and page1, or a failure
    res,      \* the result of the last call on the handle, or of main
    prev,     \* the outcome of the call on the handle before the last one
    iter,     \* the CellIter made by Page::cells on the page of res
    yielded,  \* the cells the iterator has returned so far
    hin,      \* parse_btree_header: the input slice
    hout,     \* parse_btree_header: the result
    pin,      \* parse_payload: the input slice
    pout,     \* parse_payload: the result
    sql,      \* the SQL parsers: the input text
    sout      \* the SQL parsers: the call made and its result

vars ==
    <<file, pos, handle, res, prev, iter, yielded, hin, hout, pin, pout,
      sql, sout>>

\* The element of a set of one element.  Only({e : x \in {v}}) is e with v
\* for x, and v is written, and evaluated, once.
Only(S) == CHOOSE x \in S : TRUE

Byte == 0..255

Err == [st |-> "err"]

Panic == [st |-> "panic"]

Ok(rest, val) == [st |-> "ok", rest |-> rest, val |-> val]

\* s[from..] of Rust (0-based from); the caller has checked from <= Len(s).
SliceFrom(s, from) == SubSeq(s, from + 1, Len(s))

\* s[from..to] of Rust (0-based, to exclusive).
Slice(s, from, to) == SubSeq(s, from + 1, to)

(***************************************************************************)
(* nom primitives (nom::number::complete, nom::bytes::complete).           *)
(***************************************************************************)
u8(input) ==
    IF Len(input) < 1 THEN Err ELSE Ok(Tail(input), input[1])

be_u16(input) ==
    IF Len(input) < 2 THEN Err
    ELSE Ok(SliceFrom(input, 2), input[1] * 256 + input[2])

\* The u32 is kept as its four bytes.
be_u32(input) ==
    IF Len(input) < 4 THEN Err
    ELSE Ok(SliceFrom(input, 4), Slice(input, 0, 4))

take(n, input) ==
    IF Len(input) < n THEN Err
    ELSE Ok(SliceFrom(input, n), Slice(input, 0, n))

(***************************************************************************)
(* Varint codec (sqlite/varint.rs is not among the sources; modelled from  *)
(* the specification, section 4.1): up to 9 bytes, 7 bits from each of the *)
(* first 8 with the high bit as continuation flag, 8 bits from the ninth;  *)
(* exhausted input is a (recoverable) parse error.                         *)
(***************************************************************************)
RECURSIVE varint_from(_, _, _)
varint_from(input, acc, k) ==
    IF Len(input) < 1 THEN Err
    ELSE IF k = 9 THEN Ok(Tail(input), acc * 256 + input[1])
    ELSE IF input[1] < 128 THEN Ok(Tail(input), acc * 128 + input[1])
    ELSE varint_from(Tail(input), acc * 128 + (input[1] - 128), k + 1)

varint(input) == varint_from(input, 0, 1)

(***************************************************************************)
(* PageKind and the b-tree page header.                                    *)
(***************************************************************************)
\* The decode that also takes the byte 0 (an empty page) for a table leaf.
PageKind_try_from_accept_zero(value) ==
    CASE value = 2 -> [st |-> "ok", val |-> "IndexInterior"]
      [] value = 5 -> [st |-> "ok", val |-> "TableInterior"]
      [] value = 10 -> [st |-> "ok", val |-> "IndexLeaf"]
      [] value = 13 \/ value = 0 -> [st |-> "ok", val |-> "TableLeaf"]
      [] OTHER -> Err

\* TryFrom<u8> for PageKind
PageKind_try_from(value) ==
    CASE value = 2 -> [st |-> "ok", val |-> "IndexInterior"]
      [] value = 5 -> [st |-> "ok", val |-> "TableInterior"]
      [] value = 10 -> [st |-> "ok", val |-> "IndexLeaf"]
      [] value = 13 -> [st |-> "ok", val |-> "TableLeaf"]
      [] OTHER -> Err

is_interior(kind) == kind \in {"IndexInterior", "TableInterior"}

None == [some |-> FALSE]

Some(v) == [some |-> TRUE, val |-> v]

\* tuple((map_res(u8, PageKind::try_from), be_u16, be_u16, be_u16, u8, be_u32)):
\* all six parsers run in sequence whatever the kind; then the pointer is
\* kept only for an interior kind.
parse_btree_header(input) ==
    LET r0 == u8(input) IN
    IF r0.st # "ok" THEN Err ELSE
    LET k == PageKind_try_from(r0.val) IN
    IF k.st # "ok" THEN Err ELSE
    LET r1 == be_u16(r0.rest) IN
    IF r1.st # "ok" THEN Err ELSE
    LET r2 == be_u16(r1.rest) IN
    IF r2.st # "ok" THEN Err ELSE
    LET r3 == be_u16(r2.rest) IN
    IF r3.st # "ok" THEN Err ELSE
    LET r4 == u8(r3.rest) IN
    IF r4.st # "ok" THEN Err ELSE
    LET r5 == be_u32(r4.rest) IN
    IF r5.st # "ok" THEN Err ELSE
    Ok(r5.rest,
       [kind |-> k.val,
        first_freeblock |-> r1.val,
        cell_count |-> r2.val,
        cell_contents |-> r3.val,
        fragmented_free_bytes |-> r4.val,
        rightmost_pointer |->
            IF is_interior(k.val) THEN Some(r5.val) ELSE None])

(***************************************************************************)
(* Values and the record (payload) decoder, sqlite/record.rs.              *)
(***************************************************************************)
Null == [tag |-> "Null"]

Integer(bits) == [tag |-> "Integer", v |-> bits]

Float(bits) == [tag |-> "Float", v |-> bits]

Blob(bytes) == [tag |-> "Blob", v |-> bytes]

String(bytes) == [tag |-> "String", v |-> bytes]

\* n times the byte b.
Repeat(b, n) == [i \in 1..n |-> b]

\* `n.into()` / `as i64` of a signed big-endian integer of Len(bytes) bytes:
\* the 8 bytes of the i64 with the same value.
i64_from(bytes) ==
    Repeat(IF bytes[1] >= 128 THEN 255 ELSE 0, 8 - Len(bytes)) \o bytes

i8(input) ==
    IF Len(input) < 1 THEN Err ELSE Ok(SliceFrom(input, 1), Slice(input, 0, 1))

be_i16(input) ==
    IF Len(input) < 2 THEN Err ELSE Ok(SliceFrom(input, 2), Slice(input, 0, 2))

\* nom's be_i24 gives an i32: the 24 bits, or-ed with 0xff000000 when bit 23
\* is set.
be_i24(input) ==
    IF Len(input) < 3 THEN Err
    ELSE Ok(SliceFrom(input, 3),
            <<IF input[1] >= 128 THEN 255 ELSE 0>> \o Slice(input, 0, 3))

be_i32(input) ==
    IF Len(input) < 4 THEN Err ELSE Ok(SliceFrom(input, 4), Slice(input, 0, 4))

be_i64(input) ==
    IF Len(input) < 8 THEN Err ELSE Ok(SliceFrom(input, 8), Slice(input, 0, 8))

be_f64(input) ==
    IF Len(input) < 8 THEN Err ELSE Ok(SliceFrom(input, 8), Slice(input, 0, 8))

\* x = (x << 8) | b on a u64 held as 8 bytes.
RECURSIVE shift_in(_, _)
shift_in(x, n) ==
    IF n = <<>> THEN x ELSE shift_in(Tail(x) \o <<n[1]>>, Tail(n))

\* x |= 0xff_ff_00_00_00_00_00_00
or_sign_mask(x) == <<255, 255>> \o SliceFrom(x, 2)

\* From<u64> for RecordCode; n is the length of a Blob or String (0 otherwise).
RecordCode_from(value) ==
    IF value \in 0..9
    THEN [st |-> "ok",
          val |-> [tag |-> <<"Null", "I8", "I16", "I24", "I32", "I48", "I64",
                             "F64", "Zero", "One">>[value + 1], n |-> 0]]
    ELSE IF value >= 12 /\ value % 2 = 0
    THEN [st |-> "ok", val |-> [tag |-> "Blob", n |-> (value - 12) \div 2]]
    ELSE IF value >= 13 /\ value % 2 = 1
    THEN [st |-> "ok", val |-> [tag |-> "String", n |-> (value - 13) \div 2]]
    ELSE Panic   \* unreachable!("serial type 10 and 11 are reserved.")

(***************************************************************************)
(* String::from_utf8_lossy: every maximal invalid sequence becomes U+FFFD  *)
(* (EF BF BD); valid sequences are copied.                                 *)
(***************************************************************************)
IsCont(b) == b >= 128 /\ b <= 191

\* The bounds of the second byte of a sequence that starts with byte b.
SecondLo(b) == IF b = 224 THEN 160 ELSE IF b = 240 THEN 144 ELSE 128

SecondHi(b) == IF b = 237 THEN 159 ELSE IF b = 244 THEN 143 ELSE 191

Utf8Width(b) ==
    IF b < 128 THEN 1
    ELSE IF b >= 194 /\ b <= 223 THEN 2
    ELSE IF b >= 224 /\ b <= 239 THEN 3
    ELSE IF b >= 240 /\ b <= 244 THEN 4
    ELSE 0

\* <<valid, n>>: the chunk at the head of s is a valid sequence of n bytes, or
\* an invalid one of n bytes.
Utf8Head(s) ==
    LET w == Utf8Width(s[1]) IN
    IF w = 0 THEN <<FALSE, 1>>
    ELSE IF w = 1 THEN <<TRUE, 1>>
    ELSE IF Len(s) < 2 \/ s[2] < SecondLo(s[1]) \/ s[2] > SecondHi(s[1])
    THEN <<FALSE, 1>>
    ELSE IF w = 2 THEN <<TRUE, 2>>
    ELSE IF Len(s) < 3 \/ ~IsCont(s[3]) THEN <<FALSE, 2>>
    ELSE IF w = 3 THEN <<TRUE, 3>>
    ELSE IF Len(s) < 4 \/ ~IsCont(s[4]) THEN <<FALSE, 3>>
    ELSE <<TRUE, 4>>

RECURSIVE lossy_chunks(_)
lossy_chunks(s) ==
    IF s = <<>> THEN <<>>
    ELSE LET h == Utf8Head(s) IN
         (IF h[1] THEN Slice(s, 0, h[2]) ELSE <<239, 191, 189>>)
             \o lossy_chunks(SliceFrom(s, h[2]))

\* Bytes that are all ASCII are valid and are returned as they are.
from_utf8_lossy(s) ==
    IF \A i \in 1..Len(s) : s[i] < 128 THEN s ELSE lossy_chunks(s)

\* The decode that reads the 48-bit integer without its sign.
RecordCode_parse_i48_unsigned(code, input) ==
    LET int(r) == IF r.st # "ok" THEN Err
                  ELSE Ok(r.rest, Integer(i64_from(r.val)))
    IN
    CASE code.tag = "Null" -> Ok(input, Null)
      [] code.tag = "I8" -> int(i8(input))
      [] code.tag = "I16" -> int(be_i16(input))
      [] code.tag = "I24" -> int(be_i24(input))
      [] code.tag = "I32" -> int(be_i32(input))
      [] code.tag = "I48" ->
            LET r == take(6, input) IN
            IF r.st # "ok" THEN Err
            ELSE Ok(r.rest, Integer(shift_in(Repeat(0, 8), r.val)))
      [] code.tag = "I64" -> int(be_i64(input))
      [] code.tag = "F64" ->
            LET r == be_f64(input) IN
            IF r.st # "ok" THEN Err ELSE Ok(r.rest, Float(r.val))
      [] code.tag = "Zero" -> Ok(input, Integer(Repeat(0, 8)))
      [] code.tag = "One" -> Ok(input, Integer(Repeat(0, 7) \o <<1>>))
      [] code.tag = "Blob" ->
            LET r == take(code.n, input) IN
            IF r.st # "ok" THEN Err ELSE Ok(r.rest, Blob(r.val))
      [] code.tag = "String" ->
            LET r == take(code.n, input) IN
            IF r.st # "ok" THEN Err
            ELSE Ok(r.rest, String(from_utf8_lossy(r.val)))

RecordCode_parse(code, input) ==
    LET int(r) == IF r.st # "ok" THEN Err
                  ELSE Ok(r.rest, Integer(i64_from(r.val)))
    IN
    CASE code.tag = "Null" -> Ok(input, Null)
      [] code.tag = "I8" -> int(i8(input))
      [] code.tag = "I16" -> int(be_i16(input))
      [] code.tag = "I24" -> int(be_i24(input))
      [] code.tag = "I32" -> int(be_i32(input))
      [] code.tag = "I48" ->
            LET r == take(6, input) IN
            IF r.st # "ok" THEN Err
            ELSE LET x == shift_in(Repeat(0, 8), r.val) IN
                 Ok(r.rest,
                    Integer(IF r.val[1] >= 128 THEN or_sign_mask(x) ELSE x))
      [] code.tag = "I64" -> int(be_i64(input))
      [] code.tag = "F64" ->
            LET r == be_f64(input) IN
            IF r.st # "ok" THEN Err ELSE Ok(r.rest, Float(r.val))
      [] code.tag = "Zero" -> Ok(input, Integer(Repeat(0, 8)))
      [] code.tag = "One" -> Ok(input, Integer(Repeat(0, 7) \o <<1>>))
      [] code.tag = "Blob" ->
            LET r == take(code.n, input) IN
            IF r.st # "ok" THEN Err ELSE Ok(r.rest, Blob(r.val))
      [] code.tag = "String" ->
            LET r == take(code.n, input) IN
            IF r.st # "ok" THEN Err
            ELSE Ok(r.rest, String(from_utf8_lossy(r.val)))

\* many1(into(varint)): at least one code; the first parse error after that
\* ends the list; each parsed varint goes through RecordCode::from.
RECURSIVE many1_codes(_, _)
many1_codes(input, acc) ==
    LET r == varint(input) IN
    IF r.st # "ok"
    THEN (IF acc = <<>> THEN Err ELSE Ok(input, acc))
    ELSE LET c == RecordCode_from(r.val) IN
         IF c.st # "ok" THEN Panic
         ELSE many1_codes(r.rest, Append(acc, c.val))

\* for code in codes { let (input, rec) = code.parse(body)?; ... }
RECURSIVE parse_records(_, _, _)
parse_records(codes, body, records) ==
    IF codes = <<>> THEN Ok(body, records)
    ELSE LET r == RecordCode_parse(codes[1], body) IN
         IF r.st # "ok" THEN Err
         ELSE parse_records(Tail(codes), r.rest, Append(records, r.val))

parse_payload(input) ==
    LET r0 == varint(input) IN
    IF r0.st # "ok" THEN Err ELSE
    LET header_size == r0.val IN
    IF header_size > Len(input) THEN Panic ELSE  \* &input[..header_size]
    LET header == Slice(input, 0, header_size)
        r1 == varint(header)
    IN
    IF r1.st # "ok" THEN Err ELSE
    LET r2 == many1_codes(r1.rest, <<>>) IN
    IF r2.st # "ok" THEN r2 ELSE
    parse_records(r2.val, SliceFrom(input, header_size), <<>>)

(***************************************************************************)
(* Display for Value and the integer conversions, sqlite/record.rs.        *)
(***************************************************************************)
\* One step of the long division by 10 of a big-endian number: the bytes of
\* the quotient so far and the remainder, <<q, r>>.
RECURSIVE DivMod10(_, _, _)
DivMod10(bytes, q, r) ==
    IF bytes = <<>> THEN <<q, r>>
    ELSE LET cur == r * 256 + bytes[1] IN
         DivMod10(Tail(bytes), Append(q, cur \div 10), cur % 10)

IsZero(bytes) == \A i \in 1..Len(bytes) : bytes[i] = 0

RECURSIVE Digits(_)
Digits(bytes) ==
    IF IsZero(bytes) THEN <<>>
    ELSE LET d == DivMod10(bytes, <<>>, 0) IN Digits(d[1]) \o <<48 + d[2]>>

\* The decimal text of an unsigned big-endian number.
u64_to_string(bytes) == IF IsZero(bytes) THEN <<48>> ELSE Digits(bytes)

\* bytes + 1 (wrapping), for the two's-complement negation.
RECURSIVE Increment(_)
Increment(bytes) ==
    IF bytes = <<>> THEN <<>>
    ELSE LET n == Len(bytes) IN
         IF bytes[n] = 255 THEN Increment(Slice(bytes, 0, n - 1)) \o <<0>>
         ELSE Slice(bytes, 0, n - 1) \o <<bytes[n] + 1>>

Negate(bits) == Increment([i \in 1..Len(bits) |-> 255 - bits[i]])

\* write!(f, "{}", n) of an i64.
i64_to_string(bits) ==
    IF bits[1] >= 128 THEN <<45>> \o u64_to_string(Negate(bits))
    ELSE u64_to_string(bits)

\* The decimal text of a number of the model (a u8, a u16, a usize).
RECURSIVE NatDigits(_)
NatDigits(n) == IF n = 0 THEN <<>> ELSE NatDigits(n \div 10) \o <<48 + (n % 10)>>

usize_to_string(n) == IF n = 0 THEN <<48>> ELSE NatDigits(n)

\* {:?} of a Vec<u8>: "[1, 2, 3]".
RECURSIVE debug_list(_)
debug_list(b) ==
    IF b = <<>> THEN <<>>
    ELSE IF Len(b) = 1 THEN usize_to_string(b[1])
    ELSE usize_to_string(b[1]) \o <<44, 32>> \o debug_list(Tail(b))

\* Display for Value.  A Float is printed by Rust's float formatter, which
\* is not modelled: no input of the model prints a Float.
to_string(v) ==
    CASE v.tag = "Null" -> <<78, 85, 76, 76>>     \* "NULL"
      [] v.tag = "Integer" -> i64_to_string(v.v)
      [] v.tag = "Blob" -> <<91>> \o debug_list(v.v) \o <<93>>
      [] v.tag = "String" -> v.v

IsDigit(b) == b >= 48 /\ b <= 57

RECURSIVE DigitsValue(_)
DigitsValue(s) ==
    IF s = <<>> THEN 0
    ELSE DigitsValue(Slice(s, 0, Len(s) - 1)) * 10 + (s[Len(s)] - 48)

\* s.parse::<u64>().unwrap_or_default(): an optional '+', then digits only.
parse_u64_or_default(s) ==
    LET d == IF s # <<>> /\ s[1] = 43 THEN Tail(s) ELSE s IN
    IF d # <<>> /\ \A i \in 1..Len(d) : IsDigit(d[i]) THEN DigitsValue(d)
    ELSE 0

RECURSIVE UnsignedOf(_)
UnsignedOf(bytes) ==
    IF bytes = <<>> THEN 0
    ELSE UnsignedOf(Slice(bytes, 0, Len(bytes) - 1)) * 256 + bytes[Len(bytes)]

\* impl From<Value> for u64.  `n as u64` of an i64 keeps the bits; the model
\* holds a u64 that is used as a number (a page id) as a number.  The Float
\* arm (a saturating float-to-integer cast) is not modelled: no input of the
\* model stores a Float where a u64 is read.
u64_from_value(v) ==
    CASE v.tag = "Null" -> 0
      [] v.tag = "Integer" -> UnsignedOf(v.v)
      [] v.tag = "Blob" -> 0
      [] v.tag = "String" -> parse_u64_or_default(v.v)

(***************************************************************************)
(* Cells, sqlite/cells.rs.                                                 *)
(***************************************************************************)
Payload(size, payload) == [size |-> size, payload |-> payload, overflow |-> None]

\* Payload::parse
Payload_parse(pl) == parse_payload(pl.payload)

\* BtreeHeader::parse_cell, by the kind of the header.
parse_cell(kind, input) ==
    CASE kind = "TableLeaf" ->
            LET r1 == varint(input) IN
            IF r1.st # "ok" THEN Err ELSE
            LET r2 == varint(r1.rest) IN
            IF r2.st # "ok" THEN Err ELSE
            LET r3 == take(r1.val, r2.rest) IN
            IF r3.st # "ok" THEN Err ELSE
            Ok(r3.rest, [tag |-> "TableLeaf", rowid |-> r2.val,
                         payload |-> Payload(r1.val, r3.val)])
      [] kind = "TableInterior" ->
            LET r1 == be_u32(input) IN
            IF r1.st # "ok" THEN Err ELSE
            LET r2 == varint(r1.rest) IN
            IF r2.st # "ok" THEN Err ELSE
            Ok(r2.rest, [tag |-> "TableInterior", left_child_page |-> r1.val,
                         rowid |-> r2.val])
      [] kind = "IndexLeaf" ->
            LET r1 == varint(input) IN
            IF r1.st # "ok" THEN Err ELSE
            LET r2 == take(r1.val, r1.rest) IN
            IF r2.st # "ok" THEN Err ELSE
            Ok(r2.rest, [tag |-> "IndexLeaf", payload |-> Payload(r1.val, r2.val)])
      [] kind = "IndexInterior" ->
            LET r1 == be_u32(input) IN
            IF r1.st # "ok" THEN Err ELSE
            LET r2 == varint(r1.rest) IN
            IF r2.st # "ok" THEN Err ELSE
            LET r3 == take(r2.val, r2.rest) IN
            IF r3.st # "ok" THEN Err ELSE
            Ok(r3.rest, [tag |-> "IndexInterior", left_child_page |-> r1.val,
                         payload |-> Payload(r2.val, r3.val)])

\* Cell::get_payload
get_payload(cell) ==
    IF cell.tag = "TableInterior" THEN None ELSE Some(cell.payload)

\* TryFrom<Cell> for Vec<Value>: [st |-> "ok", val |-> row], or an error.
\* A panic inside parse_payload stays a panic.
row_try_from(cell) ==
    LET pl == get_payload(cell) IN
    IF ~pl.some THEN Err ELSE
    Only({IF r.st = "ok" THEN [st |-> "ok", val |-> r.val] ELSE r :
             r \in {Payload_parse(pl.val)}})

(***************************************************************************)
(* Pages and the cell iterator, sqlite/mod.rs.                             *)
(***************************************************************************)
Page(page_id, data, header) ==
    [page_id |-> page_id, data |-> data, header |-> header]

\* Page::cells: the iterator over the cell pointer array, or a panic when
\* the array would end after the page.  A slice of the page is held with
\* its offset in the page (at) beside its bytes.
cells(page) ==
    LET start == IF page.page_id = 1 THEN 108
                 ELSE IF is_interior(page.header.kind) THEN 12
                 ELSE 8
        count == page.header.cell_count
    IN
    IF count * 2 + start > Len(page.data) THEN Panic
    ELSE [st |-> "ok",
          val |-> [page |-> page,
                   ptr_array |-> [at |-> start,
                                  bytes |-> Slice(page.data, start,
                                                  count * 2 + start)]]]

\* CellIter::next: [st |-> "some", val |-> cell, iter |-> the iterator after
\* the call], [st |-> "none"] (the end of the array, or a cell that does not
\* decode), or a panic (a pointer after the end of the page).
CellIter_next(it) ==
    LET r == be_u16(it.ptr_array.bytes) IN
    IF r.st # "ok" THEN [st |-> "none"] ELSE
    LET ptr == r.val IN
    IF ptr > Len(it.page.data) THEN Panic ELSE
    Only({IF c.st # "ok" THEN [st |-> "none"] ELSE
          [st |-> "some", val |-> c.val,
           iter |-> [it EXCEPT !.ptr_array =
                        [at |-> it.ptr_array.at + 2, bytes |-> r.rest]]] :
             c \in {parse_cell(it.page.header.kind,
                               SliceFrom(it.page.data, ptr))}})

(***************************************************************************)
(* SqliteFile, sqlite/mod.rs.  The File is its bytes and a cursor: seek     *)
(* sets the cursor, read_exact reads at the cursor and advances it, or      *)
(* fails at the end of the file.                                           *)
(***************************************************************************)
\* file.read_exact(&mut buf) with the cursor at `at`: the bytes and the new
\* cursor, or an error with the cursor at the end of what could be read.
read_exact(f, at, n) ==
    IF at + n <= Len(f)
    THEN [st |-> "ok", val |-> Slice(f, at, at + n), pos |-> at + n]
    ELSE [st |-> "err", pos |-> IF at > Len(f) THEN at ELSE Len(f)]

\* SqliteFile::new: [st |-> "ok", page_size, page1, pos] or a failure.
SqliteFile_new(f) ==
    LET r0 == read_exact(f, 16, 2) IN
    IF r0.st # "ok" THEN [st |-> "err", pos |-> r0.pos] ELSE
    LET page_size == r0.val[1] * 256 + r0.val[2]
        r1 == read_exact(f, 0, page_size)
    IN
    IF r1.st # "ok" THEN [st |-> "err", pos |-> r1.pos] ELSE
    IF Len(r1.val) < 100 THEN [st |-> "panic", pos |-> r1.pos] ELSE  \* &data[100..]
    LET h == parse_btree_header(SliceFrom(r1.val, 100)) IN
    IF h.st # "ok" THEN [st |-> "err", pos |-> r1.pos] ELSE
    [st |-> "ok", page_size |-> page_size,
     page1 |-> Page(1, r1.val, h.val), pos |-> r1.pos]

\* The seek of the older reader (internals.rs): relative to the cursor.
get_page_seek_current(self, f, at, page_id) ==
    LET r == read_exact(f, at + page_id * self.page_size, self.page_size) IN
    IF r.st # "ok" THEN [st |-> "err", pos |-> r.pos] ELSE
    IF page_id = 1 /\ Len(r.val) < 100 THEN [st |-> "panic", pos |-> r.pos] ELSE
    LET hdata == IF page_id = 1 THEN SliceFrom(r.val, 100) ELSE r.val
        h == parse_btree_header(hdata)
    IN
    IF h.st # "ok" THEN [st |-> "err", pos |-> r.pos] ELSE
    [st |-> "ok", val |-> Page(page_id, r.val, h.val), pos |-> r.pos]

\* SqliteFile::get_page(page_id), page_id >= 1, with the cursor at `at`
\* before the call: the page and the cursor after the call.
get_page(self, f, at, page_id) ==
    LET r == read_exact(f, (page_id - 1) * self.page_size, self.page_size) IN
    IF r.st # "ok" THEN [st |-> "err", pos |-> r.pos] ELSE
    IF page_id = 1 /\ Len(r.val) < 100 THEN [st |-> "panic", pos |-> r.pos] ELSE
    LET hdata == IF page_id = 1 THEN SliceFrom(r.val, 100) ELSE r.val
        h == parse_btree_header(hdata)
    IN
    IF h.st # "ok" THEN [st |-> "err", pos |-> r.pos] ELSE
    [st |-> "ok", val |-> Page(page_id, r.val, h.val), pos |-> r.pos]

SchemaTypes ==
    {<<116, 97, 98, 108, 101>>,               \* "table"
     <<105, 110, 100, 101, 120>>,             \* "index"
     <<118, 105, 101, 119>>,                  \* "view"
     <<116, 114, 105, 103, 103, 101, 114>>}   \* "trigger"

\* FromStr for SchemaType
SchemaType_from_str(s) ==
    IF s \in SchemaTypes THEN [st |-> "ok", val |-> s] ELSE Err

\* The closure of get_schema on one cell: the Schema, or a panic (unwrap of
\* a missing payload, of a record that does not decode, of an unknown entry
\* type; a row of fewer than 5 columns).
schema_of_cell(c) ==
    LET pl == get_payload(c) IN
    IF ~pl.some THEN Panic ELSE
    Only({IF r.st # "ok" THEN Panic ELSE
          LET row == r.val IN
          IF SchemaType_from_str(to_string(row[1])).st # "ok" THEN Panic ELSE
          IF Len(row) < 5 THEN Panic ELSE
          [st |-> "ok",
           val |-> [stype |-> to_string(row[1]),
                    name |-> to_string(row[2]),
                    table_name |-> to_string(row[3]),
                    rootpage |-> u64_from_value(row[4]),
                    sql |-> to_string(row[5])]] :
             r \in {Payload_parse(pl.val)}})

RECURSIVE schema_collect(_, _)
schema_collect(it, acc) ==
    Only({IF n.st = "none" THEN [st |-> "ok", val |-> acc]
          ELSE IF n.st = "panic" THEN Panic
          ELSE Only({IF e.st # "ok" THEN Panic
                     ELSE schema_collect(n.iter, Append(acc, e.val)) :
                        e \in {schema_of_cell(n.val)}}) :
             n \in {CellIter_next(it)}})

\* SqliteFile::get_schema
get_schema(self) ==
    LET it == cells(self.page1) IN
    IF it.st # "ok" THEN Panic ELSE schema_collect(it.val, <<>>)

(***************************************************************************)
(* The SELECT and CREATE TABLE parsers, sqlite/mod.rs.  The texts of the   *)
(* model are ASCII; the regular expressions are matched as the regex crate *)
(* matches them: at the leftmost start, greedily.                          *)
(***************************************************************************)
Lower(b) == IF b >= 65 /\ b <= 90 THEN b + 32 ELSE b

IsAlpha(b) == (b >= 65 /\ b <= 90) \/ (b >= 97 /\ b <= 122)

\* \w
IsWord(b) == IsAlpha(b) \/ IsDigit(b) \/ b = 95

\* \s, and char::is_whitespace for trim
IsSpace(b) == (b >= 9 /\ b <= 13) \/ b = 32

\* The literal lit (lower case) is at 0-based offset i of s, in any case.
LitAtCI(s, i, lit) ==
    /\ i + Len(lit) <= Len(s)
    /\ \A k \in 1..Len(lit) : Lower(s[i + k]) = lit[k]

\* The literal lit is at 0-based offset i of s, exactly.
LitAt(s, i, lit) ==
    /\ i + Len(lit) <= Len(s)
    /\ \A k \in 1..Len(lit) : s[i + k] = lit[k]

Max(S) == CHOOSE x \in S : \A y \in S : y <= x

Min(S) == CHOOSE x \in S : \A y \in S : x <= y

InSelectColumns(b) == IsAlpha(b) \/ b = 44 \/ b = 32

\* The character classes of the two regular expressions.
InClass(class, b) ==
    CASE class = "\\s" -> IsSpace(b)
      [] class = "\\w" -> IsWord(b)
      [] class = "[A-Za-z]" -> IsAlpha(b)
      [] class = "[A-Za-z, ]" -> InSelectColumns(b)
      [] class = "[^\\)]" -> b # 41

\* The end (0-based, exclusive) of the longest run from offset i of bytes
\* that satisfy the class.
RunEnd(s, i, class) ==
    Min({j \in i..Len(s) : j = Len(s) \/ ~InClass(class, s[j + 1])})

\* str::split(pat): the pieces between the non-overlapping occurrences of
\* pat, from the left.
RECURSIVE split(_, _)
split(s, pat) ==
    LET at == {i \in 0..Len(s) : LitAt(s, i, pat)} IN
    IF at = {} THEN <<s>>
    ELSE <<Slice(s, 0, Min(at))>> \o split(SliceFrom(s, Min(at) + Len(pat)), pat)

\* str::trim
trim_start(s) == SliceFrom(s, RunEnd(s, 0, "\\s"))

trim_end(s) ==
    Slice(s, 0, Max({j \in 0..Len(s) : j = 0 \/ ~IsSpace(s[j])}))

trim(s) == trim_end(trim_start(s))

SelectLit == <<115, 101, 108, 101, 99, 116, 32>>   \* "select "

FromLit == <<32, 102, 114, 111, 109, 32>>          \* " from "

\* The ends j of the first group of `SELECT ([A-Za-z, ]+) FROM ([A-Za-z]+)`
\* for a match that starts at i.
SelectGroupEnds(s, i) ==
    IF ~LitAtCI(s, i, SelectLit) THEN {}
    ELSE {j \in (i + 8)..RunEnd(s, i + 7, "[A-Za-z, ]") :
             /\ LitAtCI(s, j, FromLit)
             /\ j + 6 < Len(s) /\ IsAlpha(s[j + 7])}

\* FromStr for Select
Select_from_str(s) ==
    LET starts == {i \in 0..Len(s) : SelectGroupEnds(s, i) # {}} IN
    IF starts = {} THEN Err ELSE
    LET i == Min(starts)
        j == Max(SelectGroupEnds(s, i))
    IN
    [st |-> "ok",
     val |-> [name |-> Slice(s, j + 6, RunEnd(s, j + 6, "[A-Za-z]")),
              columns |-> split(Slice(s, i + 7, j), <<44, 32>>)]]

CreateLit == <<99, 114, 101, 97, 116, 101>>   \* "create"

TableLit == <<116, 97, 98, 108, 101>>         \* "table"

PrimaryKeyLit == <<112, 114, 105, 109, 97, 114, 121, 32, 107, 101, 121>>

\* The match of
\*   create\s+table\s+(?P<name>\w+)\s*\(\s*(?P<columns>[^\)]*)\)
\* that starts at i: [ok, name, columns].
CreateMatchAt(s, i) ==
    LET a == i + 6
        b == RunEnd(s, a, "\\s")
        c == b + 5
        d == RunEnd(s, c, "\\s")
        e == RunEnd(s, d, "\\w")
        g == RunEnd(s, e, "\\s")
        h == RunEnd(s, g + 1, "\\s")
        k == RunEnd(s, h, "[^\\)]")
    IN
    IF /\ LitAtCI(s, i, CreateLit) /\ b > a
       /\ LitAtCI(s, b, TableLit) /\ d > c
       /\ e > d
       /\ g < Len(s) /\ s[g + 1] = 40
       /\ k < Len(s)
    THEN [ok |-> TRUE, name |-> Slice(s, d, e), columns |-> Slice(s, h, k)]
    ELSE [ok |-> FALSE]

Contains(s, lit) == \E i \in 0..Len(s) : LitAt(s, i, lit)

\* FromStr for CreateTable
CreateTable_from_str(s) ==
    LET starts == {i \in 0..Len(s) : CreateMatchAt(s, i).ok} IN
    IF starts = {} THEN Err ELSE
    LET m == CreateMatchAt(s, Min(starts))
        parts == split(m.columns, <<44>>)
        columns == [n \in 1..Len(parts) |-> trim(parts[n])]
        colnames == [n \in 1..Len(parts) |-> split(columns[n], <<32>>)[1]]
        keys == {n \in 1..Len(parts) : Contains(columns[n], PrimaryKeyLit)}
    IN
    [st |-> "ok",
     val |-> [name |-> m.name,
              columns |-> colnames,
              key |-> IF keys = {} THEN None ELSE Some(colnames[Min(keys)])]]

\* The selection that goes through the declared columns and keeps the
\* requested ones: the indices come in declared order.
CreateTable_select_declared_order(columns, sel) ==
    LET idx == {n \in 1..Len(columns) :
                   \E m \in 1..Len(sel) : sel[m] = columns[n]}
    IN [k \in 1..Cardinality(idx) |->
           (CHOOSE n \in idx : Cardinality({m \in idx : m < n}) = k - 1) - 1]

\* CreateTable::select: for each requested column that is declared, the
\* (0-based) index of its first declaration.
RECURSIVE CreateTable_select(_, _)
CreateTable_select(columns, sel) ==
    IF sel = <<>> THEN <<>>
    ELSE LET at == {n \in 1..Len(columns) : columns[n] = sel[1]} IN
         (IF at = {} THEN <<>> ELSE <<Min(at) - 1>>)
             \o CreateTable_select(columns, Tail(sel))

(***************************************************************************)
(* main, main.rs: the run of one command on a database file.  The result   *)
(* is how the process ends (ok, err: main returns an Err, panic) and the   *)
(* lines printed until then.                                               *)
(***************************************************************************)
Exit(how, out) == [exit |-> how, out |-> out]

\* result.join("|")
RECURSIVE join(_, _)
join(parts, sep) ==
    IF parts = <<>> THEN <<>>
    ELSE IF Len(parts) = 1 THEN parts[1]
    ELSE parts[1] \o sep \o join(Tail(parts), sep)

DbinfoCommand == <<46, 100, 98, 105, 110, 102, 111>>   \* ".dbinfo"

TablesCommand == <<46, 116, 97, 98, 108, 101, 115>>    \* ".tables"

PageSizeLabel ==      \* "database page size: "
    <<100, 97, 116, 97, 98, 97, 115, 101, 32, 112, 97, 103, 101, 32,
      115, 105, 122, 101, 58, 32>>

TableCountLabel ==    \* "number of tables: "
    <<110, 117, 109, 98, 101, 114, 32, 111, 102, 32, 116, 97, 98, 108, 101,
      115, 58, 32>>

main_dbinfo(f) ==
    Only({
    IF file_.st # "ok" THEN Exit(file_.st, <<>>) ELSE
    Only({
    IF schema.st # "ok" THEN Exit(schema.st, <<>>) ELSE
    Exit("ok",
         <<PageSizeLabel \o usize_to_string(file_.page_size),
           TableCountLabel \o usize_to_string(schema.val.header.cell_count)>>)
    : schema \in {get_page(file_, f, file_.pos, 1)}})
    : file_ \in {SqliteFile_new(f)}})

\* The offset in page 1 at which .tables reads the cell pointers.
tables_start == 108

\* cell_pointers(input, n): count(be_u16, n)
cell_pointers(input, n) ==
    IF Len(input) < 2 * n THEN Err
    ELSE Ok(SliceFrom(input, 2 * n),
            [i \in 1..n |-> be_u16(SliceFrom(input, 2 * (i - 1))).val])

\* The pointers that .tables reads in page 1.
tables_pointers(schema) ==
    cell_pointers(SliceFrom(schema.data, tables_start), schema.header.cell_count)

\* The loop of .tables over the cells at the pointers.
RECURSIVE tables_loop(_, _, _)
tables_loop(schema, pointers, out) ==
    IF pointers = <<>> THEN Exit("ok", out) ELSE
    IF pointers[1] > Len(schema.data) THEN Exit("panic", out) ELSE
    Only({
    IF c.st # "ok" THEN Exit("panic", out) ELSE       \* expect("parse cell")
    IF c.val.tag # "TableLeaf" THEN Exit("panic", out) ELSE   \* unimplemented!()
    Only({
    IF r.st # "ok" THEN Exit("panic", out) ELSE       \* expect("parse records")
    IF Len(r.val) < 2 THEN Exit("panic", out) ELSE    \* records[1]
    tables_loop(schema, Tail(pointers), Append(out, to_string(r.val[2])))
    : r \in {Payload_parse(c.val.payload)}})
    : c \in {parse_cell(schema.header.kind,
                        SliceFrom(schema.data, pointers[1]))}})

main_tables(f) ==
    Only({
    IF file_.st # "ok" THEN Exit(file_.st, <<>>) ELSE
    Only({
    IF schema.st # "ok" THEN Exit(schema.st, <<>>) ELSE
    IF Len(schema.val.data) < tables_start THEN Exit("panic", <<>>) ELSE
    LET p == tables_pointers(schema.val) IN
    IF p.st # "ok" THEN Exit("panic", <<>>) ELSE
    tables_loop(schema.val, p.val, <<>>)
    : schema \in {get_page(file_, f, file_.pos, 1)}})
    : file_ \in {SqliteFile_new(f)}})

\* The line printed for a row: the values at the selected (0-based) indices
\* as text, joined by "|".  The row has a value at every selected index.
row_line(row, selected) ==
    join([k \in 1..Len(selected) |-> to_string(row[selected[k] + 1])], <<124>>)

\* for cell in page.cells() { ... println!(...) }
RECURSIVE query_loop(_, _, _)
query_loop(it, selected, out) ==
    Only({
    IF n.st = "none" THEN Exit("ok", out) ELSE
    IF n.st = "panic" THEN Exit("panic", out) ELSE
    Only({
    IF row.st # "ok" THEN Exit(row.st, out) ELSE
    IF \E k \in 1..Len(selected) : selected[k] >= Len(row.val)
    THEN Exit("panic", out)                           \* row[*s]
    ELSE query_loop(n.iter, selected, Append(out, row_line(row.val, selected)))
    : row \in {row_try_from(n.val)}})
    : n \in {CellIter_next(it)}})

main_query(f, query) ==
    Only({
    IF file_.st # "ok" THEN Exit(file_.st, <<>>) ELSE
    Only({
    IF schema.st # "ok" THEN Exit("panic", <<>>) ELSE
    Only({
    IF stmt.st # "ok" THEN Exit("err", <<>>) ELSE
    LET found == {n \in 1..Len(schema.val) : schema.val[n].name = stmt.val.name} IN
    IF found = {} THEN Exit("err", <<>>) ELSE         \* "table not found"
    Only({
    Only({
    IF create.st # "ok" THEN Exit("err", <<>>) ELSE
    LET selected == CreateTable_select(create.val.columns, stmt.val.columns) IN
    IF table.rootpage = 0 THEN Exit("panic", <<>>) ELSE   \* NonZeroU64 unwrap
    Only({
    IF page.st # "ok" THEN Exit(page.st, <<>>) ELSE
    LET it == cells(page.val) IN
    IF it.st # "ok" THEN Exit("panic", <<>>) ELSE
    query_loop(it.val, selected, <<>>)
    : page \in {get_page(file_, f, file_.pos, table.rootpage)}})
    : create \in {CreateTable_from_str(table.sql)}})
    : table \in {schema.val[Min(found)]}})
    : stmt \in {Select_from_str(query)}})
    : schema \in {get_schema(file_)}})
    : file_ \in {SqliteFile_new(f)}})

\* main with args = [program, path, command]: fewer arguments are an error.
main(argc, f, command) ==
    IF argc < 3 THEN Exit("err", <<>>)
    ELSE IF command = DbinfoCommand THEN main_dbinfo(f)
    ELSE IF command = TablesCommand THEN main_tables(f)
    ELSE main_query(f, command)

(***************************************************************************)
(* Inputs of the two pure decoders.                                        *)
(***************************************************************************)
MaxHdrLen == 14

MaxBody == 9

MaxCode == 31

\* The bytes that follow the kind byte of a header input.
HdrTail == [i \in 1..MaxHdrLen |-> (i * 37) % 256]

HeaderInputs ==
    {Slice(<<b>> \o HdrTail, 0, n) : b \in Byte, n \in 0..MaxHdrLen}

\* Record bodies: small and large positive, negative, and UTF-8 text with
\* valid, truncated and invalid sequences.
Utf8Mix == <<97, 195, 169, 226, 130, 172, 240, 159, 98>>

BodyPattern(k, n) ==
    [i \in 1..n |->
        CASE k = 1 -> i
          [] k = 2 -> IF i = 1 THEN 128 ELSE 0
          [] k = 3 -> 256 - i
          [] k = 4 -> IF i = 1 THEN 127 ELSE 255
          [] OTHER -> Utf8Mix[((i - 1) % Len(Utf8Mix)) + 1]]

Bodies == {BodyPattern(k, n) : k \in 1..5, n \in 0..MaxBody}

MultiCodes == {0, 1, 3, 9, 11, 14, 15}

\* Header bytes for the truncation cases: 129 is a varint byte with the
\* continuation bit set.
HeaderTails == {<<>>, <<1>>, <<1, 15>>, <<129>>, <<1, 129>>, <<129, 1>>, <<10>>}

PayloadInputs ==
    {<<2, c>> \o b : c \in 0..MaxCode, b \in Bodies}
    \cup {<<3, c1, c2>> \o b : c1 \in MultiCodes, c2 \in MultiCodes, b \in Bodies}
    \cup {<<4, c1, c2, c3>> \o BodyPattern(k, MaxBody) :
              c1 \in {1, 9, 15}, c2 \in {1, 9, 15}, c3 \in {1, 9, 15}, k \in 1..5}
    \cup {<<h>> \o t \o BodyPattern(1, n) :
              h \in 0..6, t \in HeaderTails, n \in {0, 3}}
    \cup {<<>>, <<129>>}

NotRun == [st |-> "none"]

(***************************************************************************)
(* SpecHeader: parse_btree_header applied to an input slice.               *)
(***************************************************************************)
InitHeader ==
    /\ hin \in HeaderInputs
    /\ hout = NotRun
    /\ file = <<>> /\ pos = 0 /\ handle = NotRun /\ res = NotRun
    /\ prev = "none" /\ iter = NotRun /\ yielded = <<>>
    /\ pin = <<>> /\ pout = NotRun
    /\ sql = <<>> /\ sout = NotRun

ParseHeader ==
    /\ hout = NotRun
    /\ hout' = parse_btree_header(hin)
    /\ UNCHANGED <<file, pos, handle, res, prev, iter, yielded, hin, pin, pout,
                 sql, sout>>

SpecHeader == InitHeader /\ [][ParseHeader]_vars

(***************************************************************************)
(* SpecRecord: parse_payload applied to a payload slice.                   *)
(***************************************************************************)
InitRecord ==
    /\ pin \in PayloadInputs
    /\ pout = NotRun
    /\ file = <<>> /\ pos = 0 /\ handle = NotRun /\ res = NotRun
    /\ prev = "none" /\ iter = NotRun /\ yielded = <<>>
    /\ hin = <<>> /\ hout = NotRun
    /\ sql = <<>> /\ sout = NotRun

ParsePayload ==
    /\ pout = NotRun
    /\ pout' = parse_payload(pin)
    /\ UNCHANGED <<file, pos, handle, res, prev, iter, yielded, hin, hout, pin,
                 sql, sout>>

SpecRecord == InitRecord /\ [][ParsePayload]_vars

(***************************************************************************)
(* Database files.  A file is built as SQLite lays it out: the 100-byte    *)
(* file header with the page size at offset 16, then on each page the      *)
(* b-tree header (8 bytes for a leaf kind, 12 for an interior kind), the   *)
(* cell pointer array right after it, and the cells packed at the end of   *)
(* the page, the first cell last.                                          *)
(***************************************************************************)
PageSize == 256

MaxCells == 3

MaxPageId == 3

Be16(n) == <<n \div 256, n % 256>>

Magic ==   \* "SQLite format 3\0"
    <<83, 81, 76, 105, 116, 101, 32, 102, 111, 114, 109, 97, 116, 32, 51, 0>>

FileHeader(ps) == Magic \o Be16(ps) \o Repeat(0, 82)

\* The b-tree header of a page with `count` cells whose content starts at
\* `content`; an interior kind (2, 5) has the right-most pointer.
HeaderBytes(kind, count, content) ==
    <<kind, 0, 0>> \o Be16(count) \o Be16(content) \o <<0>>
        \o (IF kind \in {2, 5} THEN <<0, 0, 0, 3>> ELSE <<>>)

RECURSIVE Flatten(_)
Flatten(ss) == IF ss = <<>> THEN <<>> ELSE ss[1] \o Flatten(Tail(ss))

\* The offset in the page of cell i: the cells end at the end of the page,
\* cell 1 last.
CellOffset(cs, i) == PageSize - Len(Flatten(Slice(cs, 0, i)))

\* A page: prefix (the file header on page 1), header, the pointers to the
\* cells in the order `order` (0 stands for a pointer after the end of the
\* page), free space, the cells.
PageBytes(prefix, kind, cs, order) ==
    LET content == Flatten([i \in 1..Len(cs) |-> cs[Len(cs) + 1 - i]])
        head == prefix
                  \o HeaderBytes(kind, Len(order), PageSize - Len(content))
                  \o Flatten([i \in 1..Len(order) |->
                                 Be16(IF order[i] = 0 THEN PageSize + 1
                                      ELSE CellOffset(cs, order[i]))])
    IN head \o Repeat(0, PageSize - Len(head) - Len(content)) \o content

TableSql ==   \* "create table t (id integer primary key, name text)"
    <<99, 114, 101, 97, 116, 101, 32, 116, 97, 98, 108, 101, 32, 116, 32, 40,
      105, 100, 32, 105, 110, 116, 101, 103, 101, 114, 32, 112, 114, 105, 109,
      97, 114, 121, 32, 107, 101, 121, 44, 32, 110, 97, 109, 101, 32, 116,
      101, 120, 116, 41>>

\* The schema row ("table", "t", "t", 2, TableSql) as a table-leaf cell with
\* row id 1.
SchemaCell ==
    LET payload == <<6, 23, 15, 15, 1, 13 + 2 * Len(TableSql)>>
                     \o <<116, 97, 98, 108, 101>> \o <<116>> \o <<116>> \o <<2>>
                     \o TableSql
    IN <<Len(payload), 1>> \o payload

\* Row i of t: row id i, the id column stored as NULL (it is the row id),
\* the name a one-letter text ("a", "b", ...).
RowCell(i) == <<4, i, 3, 0, 15, 96 + i>>

\* Cells that do not decode, or whose record does not.
BadCell(what) ==
    CASE what = "varint" -> <<129>>                  \* a cut-off size varint
      [] what = "size" -> <<100, 9, 3, 0, 15, 122>>  \* 100 payload bytes declared
      [] what = "record" -> <<3, 9, 3, 0, 15>>       \* the text byte is missing
      [] what = "reserved" -> <<2, 9, 2, 11>>        \* serial type 11

Page1(kind) == PageBytes(FileHeader(PageSize), kind, <<SchemaCell>>, <<1>>)

\* The sequences without repetition of at most n of the numbers 1..n.
RECURSIVE Orders(_, _)
Orders(S, n) ==
    IF n = 0 THEN {<<>>}
    ELSE {<<>>} \cup UNION {{<<x>> \o o : o \in Orders(S \ {x}, n - 1)} : x \in S}

Rows == [i \in 1..MaxCells |-> RowCell(i)]

\* The files of the model.
Files ==
    \* the table with up to MaxCells rows, in every pointer order
    {Page1(13) \o PageBytes(<<>>, 13, Rows, o) : o \in Orders(1..MaxCells, MaxCells)}
    \* every kind byte on page 2
    \cup {Page1(13) \o PageBytes(<<>>, k, Rows, <<2, 1>>) : k \in Byte}
    \* kinds of page 1
    \cup {Page1(k) \o PageBytes(<<>>, 13, Rows, <<1, 2>>) : k \in {0, 5, 10, 255}}
    \* a cell that does not decode, met first, second or third
    \cup {Page1(13) \o PageBytes(<<>>, 13, <<BadCell(w), RowCell(2), RowCell(3)>>, o) :
             w \in {"varint", "size", "record", "reserved"},
             o \in {<<1>>, <<2, 1>>, <<2, 1, 3>>, <<2, 3, 1>>}}
    \* a cell of page 1 that does not decode, met first or second
    \cup {PageBytes(FileHeader(PageSize), 13, <<BadCell(w), SchemaCell>>, o)
              \o PageBytes(<<>>, 13, Rows, <<1, 2>>) :
             w \in {"varint", "size"}, o \in {<<1, 2>>, <<2, 1>>}}
    \* a pointer after the end of the page
    \cup {Page1(13) \o PageBytes(<<>>, 13, Rows, o) : o \in {<<0>>, <<1, 0>>, <<1, 0, 2>>}}
    \* an interior page 2 and an index page 2 with an interior page 1
    \cup {Page1(5) \o PageBytes(<<>>, k, Rows, <<1, 2>>) : k \in {5, 10}}
    \* files cut short
    \cup {Slice(Page1(13) \o PageBytes(<<>>, 13, Rows, <<1, 2>>), 0, n) :
             n \in {0, 17, 18, 100, 255, 256, 300, 511}}
    \* other page sizes in the file header
    \cup {FileHeader(ps) \o SliceFrom(Page1(13) \o PageBytes(<<>>, 13, Rows, <<1>>), 100) :
             ps \in {0, 64, 128, 512, 1024}}

Commands ==
    {DbinfoCommand, TablesCommand,
     \* "select id, name from t"
     <<115, 101, 108, 101, 99, 116, 32, 105, 100, 44, 32, 110, 97, 109, 101,
       32, 102, 114, 111, 109, 32, 116>>,
     \* "select name from t"
     <<115, 101, 108, 101, 99, 116, 32, 110, 97, 109, 101, 32, 102, 114, 111,
       109, 32, 116>>,
     \* "SELECT name, id FROM t"
     <<83, 69, 76, 69, 67, 84, 32, 110, 97, 109, 101, 44, 32, 105, 100, 32,
       70, 82, 79, 77, 32, 116>>}

(***************************************************************************)
(* Spec: a database file, on which either main runs one command, or a      *)
(* SqliteFile is made and its pages are fetched and iterated.              *)
(***************************************************************************)
Init ==
    /\ file \in Files
    /\ pos = 0
    /\ handle = NotRun
    /\ res = NotRun
    /\ prev = "none"
    /\ iter = NotRun
    /\ yielded = <<>>
    /\ hin = <<>> /\ hout = NotRun /\ pin = <<>> /\ pout = NotRun
    /\ sql = <<>> /\ sout = NotRun

Main ==
    /\ handle = NotRun /\ res = NotRun
    /\ \E argc \in 2..3, command \in Commands :
           res' = [op |-> "main", argc |-> argc, command |-> command,
                   run |-> main(argc, file, command)]
    /\ UNCHANGED <<file, pos, handle, prev, iter, yielded, hin, hout, pin, pout,
                 sql, sout>>

New ==
    /\ handle = NotRun /\ res = NotRun
    /\ LET h == SqliteFile_new(file) IN
       /\ handle' = IF h.st = "ok"
                    THEN [st |-> "ok", page_size |-> h.page_size, page1 |-> h.page1]
                    ELSE [st |-> h.st]
       /\ pos' = h.pos
    /\ UNCHANGED <<file, res, prev, iter, yielded, hin, hout, pin, pout,
                 sql, sout>>

GetPage ==
    /\ handle.st = "ok" /\ iter = NotRun
    /\ \E page_id \in 1..MaxPageId :
           LET r == get_page(handle, file, pos, page_id) IN
           /\ res' = IF r.st = "ok"
                     THEN [op |-> "get_page", page_id |-> page_id, st |-> "ok",
                           val |-> r.val]
                     ELSE [op |-> "get_page", page_id |-> page_id, st |-> r.st]
           /\ pos' = r.pos
    /\ prev' = IF res = NotRun THEN "none" ELSE res.st
    /\ UNCHANGED <<file, handle, iter, yielded, hin, hout, pin, pout,
                 sql, sout>>

GetSchema ==
    /\ handle.st = "ok" /\ iter = NotRun
    /\ LET r == get_schema(handle) IN
       res' = IF r.st = "ok" THEN [op |-> "get_schema", st |-> "ok", val |-> r.val]
              ELSE [op |-> "get_schema", st |-> r.st]
    /\ prev' = IF res = NotRun THEN "none" ELSE res.st
    /\ UNCHANGED <<file, pos, handle, iter, yielded, hin, hout, pin, pout,
                 sql, sout>>

\* page.cells() on the page that get_page returned.
PageCells ==
    /\ handle.st = "ok" /\ iter = NotRun
    /\ res # NotRun /\ res.op = "get_page" /\ res.st = "ok"
    /\ iter' = cells(res.val)
    /\ UNCHANGED <<file, pos, handle, res, prev, yielded, hin, hout, pin, pout,
                 sql, sout>>

\* iter.next()
CellIterNext ==
    /\ iter.st = "ok"
    /\ LET n == CellIter_next(iter.val) IN
       IF n.st = "some"
       THEN /\ iter' = [st |-> "ok", val |-> n.iter]
            /\ yielded' = Append(yielded, n.val)
       ELSE /\ iter' = [st |-> IF n.st = "none" THEN "done" ELSE "panic"]
            /\ UNCHANGED yielded
    /\ UNCHANGED <<file, pos, handle, res, prev, hin, hout, pin, pout,
                 sql, sout>>

Next == Main \/ New \/ GetPage \/ GetSchema \/ PageCells \/ CellIterNext

Spec == Init /\ [][Next]_vars

(***************************************************************************)
(* Reference definitions of the record format, used to state the claims    *)
(* about the decoders (specification, section 4.2).                        *)
(***************************************************************************)
\* The serial-type codes of a header region: the varints that follow the
\* header-length varint, as far as complete varints go.
RECURSIVE CodesOf(_)
CodesOf(region) ==
    LET r == varint(region) IN
    IF r.st # "ok" THEN <<>> ELSE <<r.val>> \o CodesOf(r.rest)

\* What is left of a header region after its complete varints.
RECURSIVE LeftOver(_)
LeftOver(region) ==
    LET r == varint(region) IN
    IF r.st # "ok" THEN region ELSE LeftOver(r.rest)

\* The declared header length H of a payload, when its varint is there.
HasLength(p) == varint(p).st = "ok"

DeclaredHeader(p) == varint(p).val

\* The header region lies inside the payload.
HeaderFits(p) == HasLength(p) /\ DeclaredHeader(p) <= Len(p)

HeaderRegion(p) == varint(Slice(p, 0, DeclaredHeader(p))).rest

HeaderCodes(p) == CodesOf(HeaderRegion(p))

BodyOf(p) == SliceFrom(p, DeclaredHeader(p))

\* The header holds its own length varint and at least one code, and the
\* codes end exactly where the header region ends.
WellFormedHeader(p) ==
    /\ HeaderFits(p)
    /\ varint(Slice(p, 0, DeclaredHeader(p))).st = "ok"
    /\ HeaderCodes(p) # <<>>
    /\ LeftOver(HeaderRegion(p)) = <<>>

Reserved(c) == c \in {10, 11}

\* The body width the format prescribes for serial-type code c.
WidthOf(c) ==
    CASE c \in {0, 8, 9, 10, 11} -> 0
      [] c \in 1..4 -> c
      [] c = 5 -> 6
      [] c \in {6, 7} -> 8
      [] c >= 12 /\ c % 2 = 0 -> (c - 12) \div 2
      [] OTHER -> (c - 13) \div 2

RECURSIVE SumWidths(_)
SumWidths(codes) ==
    IF codes = <<>> THEN 0 ELSE WidthOf(codes[1]) + SumWidths(Tail(codes))

\* The number read from big-endian bytes as unsigned (at most 3 bytes here).
RECURSIVE Unsigned(_)
Unsigned(bytes) ==
    IF bytes = <<>> THEN 0
    ELSE Unsigned(Slice(bytes, 0, Len(bytes) - 1)) * 256 + bytes[Len(bytes)]

RECURSIVE Pow256(_)
Pow256(k) == IF k = 0 THEN 1 ELSE 256 * Pow256(k - 1)

\* The two's-complement value of at most 3 big-endian bytes.
Signed(bytes) ==
    Unsigned(bytes) - (IF bytes[1] >= 128 THEN Pow256(Len(bytes)) ELSE 0)

\* The value of an i64 given by its 8 bytes, when it is within 24 bits.
SmallI64(bits) ==
    IF bits[1] >= 128
    THEN -(Unsigned([i \in 1..3 |-> 255 - bits[5 + i]]) + 1)
    ELSE Unsigned(Slice(bits, 5, 8))

IsAscii(bytes) == \A i \in 1..Len(bytes) : bytes[i] < 128

\* The value of code c read from exactly WidthOf(c) bytes agrees with the
\* format: its class, and its content.
Agrees(c, bytes, v) ==
    CASE c = 0 -> v = Null
      [] c = 8 -> v.tag = "Integer" /\ v.v = <<0, 0, 0, 0, 0, 0, 0, 0>>
      [] c = 9 -> v.tag = "Integer" /\ v.v = <<0, 0, 0, 0, 0, 0, 0, 1>>
      [] c \in 1..6 ->
            LET k == Len(bytes) IN
            /\ v.tag = "Integer"
            /\ Len(v.v) = 8
            /\ \A i \in 1..8 :
                   v.v[i] = IF i > 8 - k THEN bytes[i - (8 - k)]
                            ELSE IF bytes[1] >= 128 THEN 255 ELSE 0
            /\ k <= 3 => SmallI64(v.v) = Signed(bytes)
      [] c = 7 -> v.tag = "Float"
      [] c >= 12 /\ c % 2 = 0 -> v.tag = "Blob" /\ v.v = bytes
      [] OTHER -> v.tag = "String" /\ (IsAscii(bytes) => v.v = bytes)

\* Column i of the record is read right after column i - 1.
ColumnBytes(codes, body, i) ==
    LET from == SumWidths(Slice(codes, 0, i - 1)) IN
    Slice(body, from, from + WidthOf(codes[i]))

(***************************************************************************)
(* C4: a payload whose header holds serial-type code 10 or 11 in some      *)
(* column position makes parse_payload return a decode error to its caller *)
(* (not abort the process), with no values of the row.                     *)
(***************************************************************************)
C4_ReservedCodeIsDecodeError ==
    (/\ pout # NotRun
     /\ WellFormedHeader(pin)
     /\ \E i \in 1..Len(HeaderCodes(pin)) : Reserved(HeaderCodes(pin)[i]))
        => pout.st = "err"

(***************************************************************************)
(* C5: parse_payload returns a decode error, and never a row of the        *)
(* columns decoded so far, when the header is truncated (the declared      *)
(* header length exceeds the payload, or a serial-type varint is cut off   *)
(* by the end of the header region) or the body is shorter than the sum of *)
(* the declared column widths.                                             *)
(***************************************************************************)
HeaderTooLong(p) == HasLength(p) /\ DeclaredHeader(p) > Len(p)

CodeCutOff(p) ==
    /\ HeaderFits(p)
    /\ varint(Slice(p, 0, DeclaredHeader(p))).st = "ok"
    /\ LeftOver(HeaderRegion(p)) # <<>>

BodyTooShort(p) ==
    /\ WellFormedHeader(p)
    /\ \A i \in 1..Len(HeaderCodes(p)) : ~Reserved(HeaderCodes(p)[i])
    /\ Len(BodyOf(p)) < SumWidths(HeaderCodes(p))

C5_TruncationIsDecodeError ==
    (pout # NotRun /\ (HeaderTooLong(pin) \/ CodeCutOff(pin) \/ BodyTooShort(pin)))
        => pout.st = "err"

(***************************************************************************)
(* C10: every serial-type code decodes to the value class and consumes     *)
(* the body width the format prescribes (0, 8, 9: Null, 0, 1 with no body  *)
(* bytes; 1..6: the big-endian two's-complement integer of 1, 2, 3, 4, 6,  *)
(* 8 bytes sign-extended to 64 bits; even n >= 12: a Blob of (n-12)/2      *)
(* bytes; odd n >= 13: Text of (n-13)/2 bytes), and the values of a        *)
(* multi-column record are in header code order, each read from the body   *)
(* right after the previous one.                                           *)
(***************************************************************************)
C10_CodesDecodeByFormat ==
    (/\ pout # NotRun
     /\ WellFormedHeader(pin)
     /\ \A i \in 1..Len(HeaderCodes(pin)) : ~Reserved(HeaderCodes(pin)[i])
     /\ Len(BodyOf(pin)) >= SumWidths(HeaderCodes(pin)))
        => LET codes == HeaderCodes(pin)
               body == BodyOf(pin)
           IN
           /\ pout.st = "ok"
           /\ Len(pout.val) = Len(codes)
           /\ Len(pout.rest) = Len(body) - SumWidths(codes)
           /\ \A i \in 1..Len(codes) :
                  Agrees(codes[i], ColumnBytes(codes, body, i), pout.val[i])

\* A two-column record (a negative 8-bit integer, then a one-byte text) has
\* been decoded.
C10_Witness ==
    /\ pout # NotRun /\ pout.st = "ok"
    /\ Len(pin) >= 5 /\ pin[1] = 3 /\ pin[2] = 1 /\ pin[3] = 15 /\ pin[4] >= 128
    /\ Len(pout.val) = 2

(***************************************************************************)
(* C6: parse_btree_header gives a present rightmost_pointer exactly for an *)
(* interior kind (2, 5) and an absent one for a leaf kind (10, 13), and    *)
(* consumes 12 bytes of an interior header and 8 bytes of a leaf header;   *)
(* a leaf header of 8 bytes followed by fewer than 4 bytes still parses.   *)
(***************************************************************************)
Consumed(input, r) == Len(input) - Len(r.rest)

C6_HeaderLengthByKind ==
    (hout # NotRun /\ Len(hin) >= 1)
        => /\ (hin[1] \in {2, 5} /\ Len(hin) >= 12)
                => /\ hout.st = "ok"
                   /\ hout.val.rightmost_pointer.some
                   /\ Consumed(hin, hout) = 12
           /\ (hin[1] \in {10, 13} /\ Len(hin) >= 8)
                => /\ hout.st = "ok"
                   /\ ~hout.val.rightmost_pointer.some
                   /\ Consumed(hin, hout) = 8

(***************************************************************************)
(* Reference definitions of the page format, used to state the claims      *)
(* about pages and cells (specification, section 4.3).                     *)
(***************************************************************************)
\* Where the cell pointer array of a page starts: after the 100 bytes of the
\* file header on page 1, and after a page header of 12 (interior) or 8
\* (leaf) bytes.
PointerArrayStart(page) ==
    (IF page.page_id = 1 THEN 100 ELSE 0)
        + (IF is_interior(page.header.kind) THEN 12 ELSE 8)

\* The cell pointer array lies inside the page.
ArrayInPage(page) ==
    PointerArrayStart(page) + 2 * page.header.cell_count <= Len(page.data)

\* Entry i (from 1) of the cell pointer array.
PointerAt(page, i) ==
    LET at == PointerArrayStart(page) + 2 * (i - 1) IN
    page.data[at + 1] * 256 + page.data[at + 2]

\* The cell decoded at the offset in entry i of the cell pointer array.
CellAt(page, i) ==
    IF PointerAt(page, i) > Len(page.data) THEN Err
    ELSE parse_cell(page.header.kind, SliceFrom(page.data, PointerAt(page, i)))

AllCellsDecode(page) ==
    /\ ArrayInPage(page)
    /\ \A i \in 1..page.header.cell_count : CellAt(page, i).st = "ok"

SomeCellFails(page) ==
    /\ ArrayInPage(page)
    /\ \E i \in 1..page.header.cell_count : CellAt(page, i).st # "ok"

\* A table-leaf cell at offset ptr: the payload size, the row id, and then
\* the payload bytes.
LeafSizeAt(page, ptr) == varint(SliceFrom(page.data, ptr))

LeafRowIdAt(page, ptr) == varint(LeafSizeAt(page, ptr).rest)

LeafPayloadAt(page, ptr) ==
    Slice(LeafRowIdAt(page, ptr).rest, 0, LeafSizeAt(page, ptr).val)

\* main has run a command with a database path.
MainRan == res # NotRun /\ res.op = "main" /\ res.argc = 3

Queries == Commands \ {DbinfoCommand, TablesCommand}

\* Page 1 of the file, and the root page of table t (page 2 in every file of
\* the model), as an open handle gets them.
Opened == SqliteFile_new(file)

FirstPage == Opened.page1

RootPage == get_page(Opened, file, Opened.pos, 2)

(***************************************************************************)
(* C1: when a SELECT runs on a table whose CREATE TABLE declares a         *)
(* primary-key alias column, the value printed for that column of a        *)
(* table-leaf cell of the root page is the cell's row id whenever the      *)
(* stored value is Null: rows (1, "a"), (2, "b"), (3, "c") of              *)
(* t(id integer primary key, name text) print 1|a, 2|b, 3|c for            *)
(* `select id, name from t`, never NULL|a.                                 *)
(***************************************************************************)
\* The text the claim prescribes for column `col` of a table-leaf cell.
PrescribedText(cell, row, create, col) ==
    LET at == {n \in 1..Len(create.columns) : create.columns[n] = col}
        stored == row[Min(at)]
    IN
    IF create.key.some /\ create.key.val = col /\ stored = Null
    THEN usize_to_string(cell.rowid)
    ELSE to_string(stored)

\* The line the claim prescribes for a cell: the requested columns that the
\* table declares, joined by "|".
RECURSIVE PrescribedTexts(_, _, _, _)
PrescribedTexts(cell, row, create, cols) ==
    IF cols = <<>> THEN <<>>
    ELSE (IF \E n \in 1..Len(create.columns) : create.columns[n] = cols[1]
          THEN <<PrescribedText(cell, row, create, cols[1])>>
          ELSE <<>>)
             \o PrescribedTexts(cell, row, create, Tail(cols))

PrescribedLine(cell, create, cols) ==
    join(PrescribedTexts(cell, parse_payload(cell.payload.payload).val,
                         create, cols),
         <<124>>)

C1_RowIdForKeyAlias ==
    (/\ MainRan /\ res.command \in Queries
     /\ res.run.exit = "ok"
     /\ RootPage.st = "ok" /\ RootPage.val.header.kind = "TableLeaf")
        => \A i \in 1..Len(res.run.out) :
               res.run.out[i] =
                   PrescribedLine(CellAt(RootPage.val, i).val,
                                  CreateTable_from_str(TableSql).val,
                                  Select_from_str(res.command).val.columns)

(***************************************************************************)
(* C2: for a page whose cells all decode, Page::cells() yields exactly     *)
(* header.cell_count cells, and the i-th cell yielded is the cell decoded  *)
(* at the page offset in the i-th entry of the cell pointer array (in the  *)
(* order of the array, not of the row ids), with the row id and the        *)
(* payload bytes found at that offset.                                     *)
(***************************************************************************)
C2_CellsInPointerOrder ==
    (/\ iter # NotRun /\ iter.st \in {"done", "panic"}
     /\ AllCellsDecode(res.val))
        => /\ iter.st = "done"
           /\ Len(yielded) = res.val.header.cell_count
           /\ \A i \in 1..Len(yielded) :
                  /\ yielded[i] = CellAt(res.val, i).val
                  /\ yielded[i].tag = "TableLeaf"
                       => /\ yielded[i].rowid =
                                 LeafRowIdAt(res.val, PointerAt(res.val, i)).val
                          /\ yielded[i].payload.payload =
                                 LeafPayloadAt(res.val, PointerAt(res.val, i))

(***************************************************************************)
(* C3: when a cell of the page does not decode during a row scan or a      *)
(* catalog scan (its pointer leads to a cut-off varint, or to a payload    *)
(* whose declared size exceeds the bytes left in the page), the operation  *)
(* does not end successfully: it never completes with only the rows of the *)
(* cells before the failing one.                                           *)
(***************************************************************************)
C3_CellFailureIsError ==
    /\ (/\ MainRan /\ res.command \in Queries
        /\ Opened.st = "ok"
        /\ \/ SomeCellFails(FirstPage)
           \/ RootPage.st = "ok" /\ SomeCellFails(RootPage.val))
           => res.run.exit # "ok"
    /\ (/\ MainRan /\ res.command = TablesCommand
        /\ Opened.st = "ok" /\ SomeCellFails(FirstPage))
           => res.run.exit # "ok"
    /\ (/\ res # NotRun /\ res.op = "get_schema"
        /\ SomeCellFails(handle.page1))
           => res.st # "ok"

(***************************************************************************)
(* C7: for every page id and page kind, the cell pointer array that        *)
(* Page::cells() reads, and that the .tables command reads, starts at byte *)
(* P + S of the page, where P = 100 for page 1 and 0 otherwise, and S = 12 *)
(* for an interior kind and 8 for a leaf kind: an interior page 1 is read  *)
(* from offset 112, not 108.                                               *)
(***************************************************************************)
C7_PointerArrayStart ==
    /\ (iter # NotRun /\ iter.st = "ok")
           => iter.val.ptr_array.at =
                  PointerArrayStart(res.val) + 2 * Len(yielded)
    /\ (/\ MainRan /\ res.command = TablesCommand
        /\ Opened.st = "ok" /\ ArrayInPage(FirstPage)
        /\ tables_pointers(FirstPage).st = "ok")
           => tables_pointers(FirstPage).val =
                  [i \in 1..FirstPage.header.cell_count |-> PointerAt(FirstPage, i)]

(***************************************************************************)
(* C8: after any earlier get_page and get_schema calls on the open handle  *)
(* (failed calls included), get_page(id), id >= 1, returns a page whose    *)
(* buffer is exactly the page_size bytes of the file at                    *)
(* [(id-1)*page_size, id*page_size), with the header parsed from byte 100  *)
(* when id = 1 and from byte 0 otherwise, or fails when fewer than         *)
(* page_size bytes are there; the result is given by id and the file       *)
(* contents alone.                                                         *)
(***************************************************************************)
\* The page size in the file header, bytes 16 and 17.
FilePageSize == file[17] * 256 + file[18]

C8_GetPageByIdAndFile ==
    (res # NotRun /\ res.op = "get_page")
        => LET from == (res.page_id - 1) * FilePageSize
               there == from + FilePageSize <= Len(file)
               bytes == Slice(file, from, from + FilePageSize)
               h == parse_btree_header(
                        SliceFrom(bytes, IF res.page_id = 1 THEN 100 ELSE 0))
           IN
           /\ handle.page_size = FilePageSize
           /\ ~there => res.st = "err"
           /\ there => /\ res.st = (IF h.st = "ok" THEN "ok" ELSE "err")
                       /\ res.st = "ok"
                            => /\ res.val.page_id = res.page_id
                               /\ res.val.data = bytes
                               /\ res.val.header = h.val

\* Page 2 has been returned right after a call that failed, with the cursor
\* of the file left elsewhere by the earlier calls.
C8_Witness ==
    /\ res # NotRun /\ res.op = "get_page" /\ res.st = "ok"
    /\ res.page_id = 2 /\ prev = "err"
    /\ Len(file) = 2 * FilePageSize

(***************************************************************************)
(* C9: decoding a page-kind byte b succeeds exactly when b is 2, 5, 10 or  *)
(* 13, and gives IndexInterior, TableInterior, IndexLeaf, TableLeaf in     *)
(* that order; for each of the other 252 byte values the kind decode       *)
(* fails, and so do parse_btree_header and get_page on a page whose header *)
(* starts with that byte.                                                  *)
(***************************************************************************)
ValidKinds == {2, 5, 10, 13}

KindOf(b) ==
    CASE b = 2 -> "IndexInterior"
      [] b = 5 -> "TableInterior"
      [] b = 10 -> "IndexLeaf"
      [] b = 13 -> "TableLeaf"

\* The bytes from which get_page(id) parses the header, when the page is in
\* the file.
HeaderBytesOf(id) ==
    SliceFrom(file, (id - 1) * FilePageSize + (IF id = 1 THEN 100 ELSE 0))

PageThere(id) == id * FilePageSize <= Len(file)

C9_KindByteValidation ==
    /\ \A b \in Byte :
           IF b \in ValidKinds
           THEN PageKind_try_from(b) = [st |-> "ok", val |-> KindOf(b)]
           ELSE PageKind_try_from(b).st = "err"
    /\ (res # NotRun /\ res.op = "get_page" /\ PageThere(res.page_id))
           => LET hdr == HeaderBytesOf(res.page_id) IN
              /\ hdr[1] \notin ValidKinds
                   => /\ parse_btree_header(hdr).st = "err"
                      /\ res.st = "err"
              /\ hdr[1] \in ValidKinds
                   => /\ parse_btree_header(hdr).st = "ok"
                      /\ parse_btree_header(hdr).val.kind = KindOf(hdr[1])
                      /\ res.st = "ok"
                      /\ res.val.header.kind = KindOf(hdr[1])

\* get_page has failed on a page that is in the file and whose header
\* starts with the byte 0.
C9_Witness ==
    /\ res # NotRun /\ res.op = "get_page" /\ res.st = "err"
    /\ PageThere(res.page_id)
    /\ HeaderBytesOf(res.page_id)[1] = 0

(***************************************************************************)
(* Inputs of the SQL parsers: SELECT and CREATE TABLE texts put together   *)
(* from their tokens, in lower and upper case, with spaces, tabs and       *)
(* newlines between the tokens, with names of letters, digits and          *)
(* underscores, and with characters before and after the statement.        *)
(***************************************************************************)
Upper(b) == IF b >= 97 /\ b <= 122 THEN b - 32 ELSE b

\* The keyword kw in the letter case `how`.
InCase(kw, how) ==
    IF how = "upper" THEN [i \in 1..Len(kw) |-> Upper(kw[i])] ELSE kw

Cases == {"lower", "upper"}

\* The texts joined by sep.
RECURSIVE Joined(_, _)
Joined(texts, sep) ==
    IF texts = <<>> THEN <<>>
    ELSE IF Len(texts) = 1 THEN texts[1]
    ELSE Joined(Slice(texts, 0, Len(texts) - 1), sep) \o sep \o texts[Len(texts)]

W_select ==   \* "select"
    <<115, 101, 108, 101, 99, 116>>

W_from ==   \* "from"
    <<102, 114, 111, 109>>

W_create ==   \* "create"
    <<99, 114, 101, 97, 116, 101>>

W_table ==   \* "table"
    <<116, 97, 98, 108, 101>>

W_primary_key ==   \* "primary key"
    <<112, 114, 105, 109, 97, 114, 121, 32, 107, 101, 121>>

N_id ==   \* "id"
    <<105, 100>>

N_name ==   \* "name"
    <<110, 97, 109, 101>>

N_description ==   \* "description"
    <<100, 101, 115, 99, 114, 105, 112, 116, 105, 111, 110>>

N_nope ==   \* "nope"
    <<110, 111, 112, 101>>

N_color ==   \* "color"
    <<99, 111, 108, 111, 114>>

N_k ==   \* "k"
    <<107>>

N_first_name ==   \* "first_name"
    <<102, 105, 114, 115, 116, 95, 110, 97, 109, 101>>

N_t ==   \* "t"
    <<116>>

N_apples ==   \* "apples"
    <<97, 112, 112, 108, 101, 115>>

N_t2 ==   \* "t2"
    <<116, 50>>

N_my_table ==   \* "my_table"
    <<109, 121, 95, 116, 97, 98, 108, 101>>

T_integer ==   \* "integer"
    <<105, 110, 116, 101, 103, 101, 114>>

T_text ==   \* "text"
    <<116, 101, 120, 116>>

T_autoincrement ==   \* "autoincrement"
    <<97, 117, 116, 111, 105, 110, 99, 114, 101, 109, 101, 110, 116>>

Before ==   \* "x "
    <<120, 32>>

AfterSelect ==   \* " where id"
    <<32, 119, 104, 101, 114, 101, 32, 105, 100>>

AfterCreate ==   \* " without rowid"
    <<32, 119, 105, 116, 104, 111, 117, 116, 32, 114, 111, 119, 105, 100>>

\* The requested column lists.
ColumnLists ==
    {<<N_name>>, <<N_name, N_description>>, <<N_name, N_id>>,
     <<N_id, N_nope, N_name>>, <<N_first_name>>}

TableNames == {N_t, N_apples, N_t2, N_my_table}

\* `select <col>[, <col>...] from <name>`, with text before and after it.
SelectText(pre, how, cols, name, post) ==
    pre \o InCase(W_select, how) \o <<32>> \o Joined(cols, <<44, 32>>)
        \o <<32>> \o InCase(W_from, how) \o <<32>> \o name \o post

SelectTexts ==
    {SelectText(pre, how, cols, name, post) :
        pre \in {<<>>, Before}, how \in Cases, cols \in ColumnLists,
        name \in TableNames, post \in {<<>>, AfterSelect}}

\* Texts that are no SELECT at all.
NoSelectTexts ==
    {W_select \o <<32>> \o W_from \o <<32>> \o N_t,      \* "select from t"
     N_name \o <<32>> \o W_from \o <<32>> \o N_t,        \* "name from t"
     W_select \o <<32>> \o N_name,                       \* "select name"
     <<>>}

\* The whitespace between two tokens.
Gaps == {<<32>>, <<9>>, <<10, 32, 32>>}

\* The whitespace between the words of a column definition.
InnerGaps == {<<32>>, <<9>>}

\* A column definition: the name, the type, then the words after the type.
\* The phrase "primary key" is written with one space.
ColumnDef(d, inner, keyhow) ==
    d.name \o inner \o d.type
        \o (IF d.key THEN inner \o InCase(W_primary_key, keyhow) ELSE <<>>)
        \o (IF d.more = <<>> THEN <<>> ELSE inner \o d.more)

Col(name, type, key, more) ==
    [name |-> name, type |-> type, key |-> key, more |-> more]

\* The declared column lists.
DefLists ==
    {<<Col(N_id, T_integer, TRUE, <<>>), Col(N_name, T_text, FALSE, <<>>)>>,
     <<Col(N_id, T_integer, FALSE, <<>>), Col(N_name, T_text, FALSE, <<>>)>>,
     <<Col(N_name, T_text, FALSE, <<>>), Col(N_id, T_integer, TRUE, <<>>),
       Col(N_k, T_integer, TRUE, <<>>)>>,
     <<Col(N_id, T_integer, TRUE, T_autoincrement),
       Col(N_name, T_text, FALSE, <<>>), Col(N_color, T_text, FALSE, <<>>)>>}

\* `create table <name> ( <col> <type...>, ... )`, with text before and
\* after it.
CreateText(pre, how, gap, inner, keyhow, name, defs, post) ==
    pre \o InCase(W_create, how) \o gap \o InCase(W_table, how) \o gap \o name
        \o gap \o <<40>> \o gap
        \o Joined([i \in 1..Len(defs) |-> ColumnDef(defs[i], inner, keyhow)],
                  <<44>> \o gap)
        \o gap \o <<41>> \o post

CreateTexts ==
    {CreateText(pre, how, gap, inner, keyhow, name, defs, post) :
        pre \in {<<>>, Before}, how \in Cases, gap \in Gaps,
        inner \in InnerGaps, keyhow \in Cases, name \in {N_t, N_my_table},
        defs \in DefLists, post \in {<<>>, AfterCreate}}

\* Texts that are no CREATE TABLE at all.
NoCreateTexts ==
    {W_create \o <<32>> \o W_table \o <<32>> \o N_t,             \* no columns
     W_create \o <<32>> \o N_t \o <<32, 40>> \o N_id \o <<41>>,  \* no "table"
     W_create \o <<32>> \o W_table \o <<32>> \o N_t \o <<32, 40>> \o N_id}

SqlTexts == SelectTexts \cup NoSelectTexts \cup CreateTexts \cup NoCreateTexts

\* The tables and the rows on which a query is run.
QueryTables ==
    {CreateText(<<>>, "lower", <<32>>, <<32>>, "lower", N_t, defs, <<>>) :
        defs \in DefLists}

QueryRows ==
    {<<Null, String(<<97>>)>>,
     <<Integer(<<0, 0, 0, 0, 0, 0, 0, 1>>), String(<<98>>), String(<<99>>)>>,
     <<Integer(<<255, 255, 255, 255, 255, 255, 255, 254>>), Blob(<<1, 2>>), Null>>,
     <<String(<<97>>)>>}

(***************************************************************************)
(* SpecSql: the SQL parsers applied to a text, and the query arm of main   *)
(* applied to one row of a table.                                          *)
(***************************************************************************)
InitSql ==
    /\ sql \in SqlTexts
    /\ sout = NotRun
    /\ file = <<>> /\ pos = 0 /\ handle = NotRun /\ res = NotRun
    /\ prev = "none" /\ iter = NotRun /\ yielded = <<>>
    /\ hin = <<>> /\ hout = NotRun /\ pin = <<>> /\ pout = NotRun

\* sql.parse::<Select>()
ParseSelect ==
    /\ sout = NotRun
    /\ sout' = [op |-> "select", r |-> Select_from_str(sql)]
    /\ UNCHANGED <<file, pos, handle, res, prev, iter, yielded, hin, hout,
                   pin, pout, sql>>

\* sql.parse::<CreateTable>()
ParseCreate ==
    /\ sout = NotRun
    /\ sout' = [op |-> "create", r |-> CreateTable_from_str(sql)]
    /\ UNCHANGED <<file, pos, handle, res, prev, iter, yielded, hin, hout,
                   pin, pout, sql>>

\* The query arm of main on one row of the table: the statement and the
\* CREATE TABLE text are parsed, the columns selected, and the line of the
\* row printed (row[*s] panics when the row is too short).
QueryRow ==
    /\ sout = NotRun
    /\ \E text \in QueryTables, row \in QueryRows :
           LET stmt == Select_from_str(sql)
               create == CreateTable_from_str(text)
               selected == CreateTable_select(create.val.columns, stmt.val.columns)
           IN
           /\ stmt.st = "ok" /\ create.st = "ok"
           /\ sout' = [op |-> "query", stmt |-> stmt.val, create |-> create.val,
                       row |-> row, selected |-> selected,
                       line |-> IF \E k \in 1..Len(selected) :
                                       selected[k] >= Len(row)
                                THEN Panic
                                ELSE [st |-> "ok", val |-> row_line(row, selected)]]
    /\ UNCHANGED <<file, pos, handle, res, prev, iter, yielded, hin, hout,
                   pin, pout, sql>>

NextSql == ParseSelect \/ ParseCreate \/ QueryRow

SpecSql == InitSql /\ [][NextSql]_vars

(***************************************************************************)
(* Reference definitions of the two SQL grammars (specification, sections  *)
(* 4.5 and 4.6): what a text of each shape is, and what it names.          *)
(***************************************************************************)
\* A name: letters, digits and underscores, at least one.
IsName(t) == t # <<>> /\ \A i \in 1..Len(t) : IsWord(t[i])

\* The first whitespace-delimited token of a text.
FirstToken(t) ==
    LET u == trim_start(t) IN
    Slice(u, 0, Min({j \in 0..Len(u) : j = Len(u) \/ IsSpace(u[j + 1])}))

LowerText(t) == [i \in 1..Len(t) |-> Lower(t[i])]

\* The offsets of the parentheses of a CREATE TABLE text.
OpenAt(s) == Min({i \in 0..Len(s) : i = Len(s) \/ s[i + 1] = 40})

CloseAt(s) == Min({i \in 0..Len(s) : i = Len(s) \/ s[i + 1] = 41})

\* The comma-separated column definitions between the parentheses.
ColumnDefs(s) == split(Slice(s, OpenAt(s) + 1, CloseAt(s)), <<44>>)

\* The whole text is `create table <name> ( <col> <type...>, ... )`, in any
\* letter case, with whitespace between the tokens.
IsCreateShape(s) ==
    LET b == RunEnd(s, 6, "\\s")
        d == RunEnd(s, b + 5, "\\s")
        e == RunEnd(s, d, "\\w")
        g == RunEnd(s, e, "\\s")
    IN
    /\ LitAtCI(s, 0, W_create) /\ b > 6
    /\ LitAtCI(s, b, W_table) /\ d > b + 5
    /\ e > d
    /\ g = OpenAt(s) /\ g < Len(s)
    /\ CloseAt(s) = Len(s) - 1
    /\ \A n \in 1..Len(ColumnDefs(s)) : IsName(FirstToken(ColumnDefs(s)[n]))

\* What a text of that shape names.
CreateNameOf(s) ==
    LET d == RunEnd(s, RunEnd(s, 6, "\\s") + 5, "\\s") IN
    Slice(s, d, RunEnd(s, d, "\\w"))

CreateColumns(s) ==
    [n \in 1..Len(ColumnDefs(s)) |-> FirstToken(ColumnDefs(s)[n])]

CreateKey(s) ==
    LET keys == {n \in 1..Len(ColumnDefs(s)) :
                    Contains(LowerText(ColumnDefs(s)[n]), W_primary_key)}
    IN IF keys = {} THEN None ELSE Some(CreateColumns(s)[Min(keys)])

(***************************************************************************)
(* C11: parsing a CREATE TABLE text of the shape                           *)
(* `create table <name> ( <col> <type...>, ... )`, in any letter case and  *)
(* with any whitespace (spaces, tabs, newlines) between the tokens, gives  *)
(* the table name, the column names in declared order, each the first      *)
(* whitespace-delimited token of its comma-separated definition, and as    *)
(* key the name of the first column whose definition contains the phrase   *)
(* "primary key" in any letter case (None when no column has it).          *)
(***************************************************************************)
C11_CreateTableParsed ==
    (sout # NotRun /\ sout.op = "create" /\ IsCreateShape(sql))
        => /\ sout.r.st = "ok"
           /\ sout.r.val.name = CreateNameOf(sql)
           /\ sout.r.val.columns = CreateColumns(sql)
           /\ sout.r.val.key = CreateKey(sql)

\* The offsets j at which ` from ` parts a SELECT text into the requested
\* columns (names joined by ", ") and the table name.
SelectFromAt(s) ==
    {j \in 7..Len(s) :
        /\ LitAtCI(s, j, <<32>> \o W_from \o <<32>>)
        /\ \A n \in 1..Len(split(Slice(s, 7, j), <<44, 32>>)) :
               IsName(split(Slice(s, 7, j), <<44, 32>>)[n])
        /\ IsName(SliceFrom(s, j + 6))}

\* The whole text is `select <col>[, <col>...] from <name>`, the keywords in
\* any letter case.
IsSelectShape(s) ==
    LitAtCI(s, 0, W_select \o <<32>>) /\ SelectFromAt(s) # {}

\* What a text of that shape names.
SelectColumns(s) == split(Slice(s, 7, Min(SelectFromAt(s))), <<44, 32>>)

SelectName(s) == SliceFrom(s, Min(SelectFromAt(s)) + 6)

(***************************************************************************)
(* C12: parsing a query text of the shape                                  *)
(* `select <col>[, <col>...] from <name>`, the keywords in any letter      *)
(* case, gives a Select whose table name is <name> and whose columns are   *)
(* exactly the requested column names, one entry per column, in the order  *)
(* written.                                                                *)
(***************************************************************************)
C12_SelectParsed ==
    (sout # NotRun /\ sout.op = "select" /\ IsSelectShape(sql))
        => /\ sout.r.st = "ok"
           /\ sout.r.val.name = SelectName(sql)
           /\ sout.r.val.columns = SelectColumns(sql)

(***************************************************************************)
(* C13: a text that does not match, as a whole, the grammar                *)
(* `select <cols> from <name>` (for Select) or `create table <name> (...)` *)
(* (for CreateTable), such as a text with characters before the statement  *)
(* or a clause like `WHERE ...` after it, is rejected with a syntax error: *)
(* it is never parsed with the other part left out.                        *)
(***************************************************************************)
C13_OtherTextRejected ==
    /\ (sout # NotRun /\ sout.op = "select" /\ ~IsSelectShape(sql))
           => sout.r.st = "err"
    /\ (sout # NotRun /\ sout.op = "create" /\ ~IsCreateShape(sql))
           => sout.r.st = "err"

(***************************************************************************)
(* C14: CreateTable::select gives, for the requested column names of a     *)
(* Select in requested order, the index of each name in the declared       *)
(* column order, and leaves out, with no error, every requested name that  *)
(* is not a declared column; every index is less than the number of        *)
(* declared columns, and the line of a row holds the texts of the values   *)
(* at those indices, in that order, joined by a single "|".                *)
(***************************************************************************)
\* The requested names that are declared, in requested order.
RECURSIVE KeptNames(_, _)
KeptNames(requested, declared) ==
    IF requested = <<>> THEN <<>>
    ELSE (IF \E n \in 1..Len(declared) : declared[n] = requested[1]
          THEN <<requested[1]>> ELSE <<>>)
             \o KeptNames(Tail(requested), declared)

\* The texts with a "|" between each two.
RECURSIVE LineOf(_)
LineOf(texts) ==
    IF texts = <<>> THEN <<>>
    ELSE IF Len(texts) = 1 THEN texts[1]
    ELSE LineOf(Slice(texts, 0, Len(texts) - 1)) \o <<124>> \o texts[Len(texts)]

C14_SelectedIndicesAndLine ==
    (sout # NotRun /\ sout.op = "query")
        => LET sel == sout.selected
               declared == sout.create.columns
               kept == KeptNames(sout.stmt.columns, declared)
           IN
           /\ Len(sel) = Len(kept)
           /\ \A k \in 1..Len(sel) :
                  /\ sel[k] >= 0 /\ sel[k] < Len(declared)
                  /\ declared[sel[k] + 1] = kept[k]
           /\ (\A k \in 1..Len(sel) : sel[k] < Len(sout.row))
                  => /\ sout.line.st = "ok"
                     /\ sout.line.val =
                            LineOf([k \in 1..Len(sel) |->
                                       to_string(sout.row[sel[k] + 1])])

\* `id, nope, name` has been selected from the table (name, id, k): nope is
\* left out, and a line of two values has been made.
C14_Witness ==
    /\ sout # NotRun /\ sout.op = "query"
    /\ Len(sout.stmt.columns) = 3
    /\ sout.selected = <<1, 0>>
    /\ sout.line.st = "ok"
    /\ \E i \in 1..Len(sout.line.val) : sout.line.val[i] = 124

============================================================================
